---- MODULE Spec2Model ----
(***************************************************************************)
(* Model of DoubleSpendProofStorage (src/dsproof/storage.cpp): the record  *)
(* index m_proofs, the orphan counter and its watermark eviction, the      *)
(* recently-rejected filter and the lock.  Every public operation is one   *)
(* action that runs the whole body of the method under the lock; the       *)
(* actions of SpecThreads run the methods of several threads statement by  *)
(* statement, with the lock taken and released as the code does.           *)
(***************************************************************************)
EXTENDS Integers, Sequences, FiniteSets, TLC

\* ---------------------------------------------------------------- bounds
NumIds == 3          \* distinct non-empty proofs
MaxTime == 1         \* GetTime() returns a value in 0..MaxTime
MaxNodeId == 1       \* peers are -1 (unset) and 0..MaxNodeId
MaxMaxOrphans == 2   \* setMaxOrphans() is called with 0..MaxMaxOrphans
NumThreads == 2      \* threads calling into the store at the same time

\* ------------------------------------------------------------ data model
EmptyProof == 0
        \* the default-constructed DoubleSpendProof, for which isEmpty()
Ids == 1..NumIds
Proofs == {EmptyProof} \cup Ids
NodeIds == (-1)..MaxNodeId
Times == 0..MaxTime
MaxOrphanSettings == 0..MaxMaxOrphans
Threads == 1..NumThreads

\* the smaller and the larger identity sets of the other specifications
FewIds == 1..(NumIds - 1)
FillIds == 1..(NumIds + 3)
FillOrphanSettings == 0..(MaxMaxOrphans + 2)

isEmpty(proof) == proof = EmptyProof

\* proof.GetId(): the hash of the proof; distinct proofs have distinct ids
GetId(proof) == proof

\* the COutPoint the proof is about: proofs 1,2 spend outpoint 1, proofs
\* 3,4 outpoint 2, ...
prevOutPoint(proof) == (proof + 1) \div 2

OutPoints == {prevOutPoint(p) : p \in Ids}

\* A default-constructed Entry holding the proof: no peer, no timestamp,
\* not an orphan.
NewEntry(proof) ==
    [proof |-> proof, nodeId |-> -1, timeStamp |-> -1, orphan |-> FALSE]

VARIABLES
    m_proofs,                \* the set of Entry records of the index
    m_numOrphans,            \* the orphan counter
    m_maxOrphans,            \* the low watermark
    m_recentRejects,         \* the rolling bloom filter, as an exact set
    m_lock,                  \* recursion depth of the recursive mutex
    last,                    \* the last call: operation, arguments, result
    rt,                      \* progress of add; addOrphan; claimOrphan
    hist,                    \* what add() and remove() did since Init
    nextId,                  \* identities handed out to the fill run
    pc,                      \* per thread: the statement it is at
    loc,                     \* per thread: the call it is in and its locals
    owner,                   \* the thread that holds m_lock, 0 when free
    pre                      \* index and counter when m_lock was last taken

store == <<m_proofs, m_numOrphans, m_maxOrphans, m_recentRejects>>
tvars == <<pc, loc, owner, pre>>
vars == <<m_proofs, m_numOrphans, m_maxOrphans, m_recentRejects, m_lock,
          last, rt, hist, nextId, pc, loc, owner, pre>>

\* ------------------------------------------------------- index accessors
\* m_proofs.find(hash): the entries with that id (end() when empty)
Find(S, hash) == {e \in S : GetId(e.proof) = hash}

\* m_proofs.modify(it, f): the entry is changed in place
Modify(S, it, e) == (S \ {it}) \cup {e}

\* m_proofs.size()
size == Cardinality(m_proofs)

\* numOrphans()
numOrphans == m_numOrphans

Min(S) == CHOOSE x \in S : \A y \in S : x <= y

\* ------------------------------------------------------ orphan accounting
\* decrementOrphans(n): throws std::runtime_error when the counter would
\* underflow, and then changes nothing
decrementOrphans(num, n) ==
    IF n # 0
    THEN IF num < n
         THEN [threw |-> TRUE, num |-> num]
         ELSE [threw |-> FALSE, num |-> num - n]
    ELSE [threw |-> FALSE, num |-> num]

\* size_t(m_maxOrphans * 1.25)
highWaterMark(max) == (max * 5) \div 4

\* mutant of lowWaterMark: the sweep stops one record early
lowWaterMark_OneEarly(max) == max + 1

\* const size_t lowWaterMark = m_maxOrphans
lowWaterMark(max) == max

\* mutant of SweepLoop: the oldest entries are erased whatever they are
RECURSIVE SweepLoop_EraseAny(_, _, _, _, _, _, _)
SweepLoop_EraseAny(unvisited, key, S, num, low, dontDeleteHash, reaped) ==
    IF unvisited = {} \/ ~(num > low)
    THEN {[proofs |-> S, num |-> num, reaped |-> reaped]}
    ELSE LET least == Min({key[e] : e \in unvisited})
         IN  UNION {
               SweepLoop_EraseAny(unvisited \ {it}, key, S \ {it}, num - 1,
                                  low, dontDeleteHash, reaped \cup {it})
               : it \in {e \in unvisited : key[e] = least} }

\* mutant of SweepLoop: the index is walked from its newest entry
RECURSIVE SweepLoop_NewestFirst(_, _, _, _, _, _, _)
SweepLoop_NewestFirst(unvisited, key, S, num, low, dontDeleteHash, reaped) ==
    IF unvisited = {} \/ ~(num > low)
    THEN {[proofs |-> S, num |-> num, reaped |-> reaped]}
    ELSE LET greatest == CHOOSE k \in {key[e] : e \in unvisited} :
                             \A e \in unvisited : key[e] <= k
         IN  UNION {
               IF it.orphan /\ dontDeleteHash # GetId(it.proof)
               THEN SweepLoop_NewestFirst(unvisited \ {it}, key, S \ {it},
                                          num - 1, low, dontDeleteHash,
                                          reaped \cup {it})
               ELSE SweepLoop_NewestFirst(unvisited \ {it}, key, S, num, low,
                                          dontDeleteHash, reaped)
               : it \in {e \in unvisited : key[e] = greatest} }

\* mutant of SweepLoop: the orphan flag of the entry is not looked at
RECURSIVE SweepLoop_IgnoresFlag(_, _, _, _, _, _, _)
SweepLoop_IgnoresFlag(unvisited, key, S, num, low, dontDeleteHash, reaped) ==
    IF unvisited = {} \/ ~(num > low)
    THEN {[proofs |-> S, num |-> num, reaped |-> reaped]}
    ELSE LET least == Min({key[e] : e \in unvisited})
         IN  UNION {
               IF dontDeleteHash # GetId(it.proof)
               THEN SweepLoop_IgnoresFlag(unvisited \ {it}, key, S \ {it},
                                          decrementOrphans(num, 1).num, low,
                                          dontDeleteHash, reaped \cup {it})
               ELSE SweepLoop_IgnoresFlag(unvisited \ {it}, key, S, num,
                                          low, dontDeleteHash, reaped)
               : it \in {e \in unvisited : key[e] = least} }

\* The loop of checkOrphanLimit over the tag_TimeStamp index.  unvisited
\* is what lies between `it` and index.end(); key[e] is the timestamp the
\* index has e filed under; the next entry visited is one with the least
\* key (entries with equal keys come in an order this file does not fix).
\* The loop runs only while num > low >= 0, so its decrementOrphans(1)
\* cannot throw.  The result is the set of possible outcomes.
RECURSIVE SweepLoop(_, _, _, _, _, _, _)
SweepLoop(unvisited, key, S, num, low, dontDeleteHash, reaped) ==
    IF unvisited = {} \/ ~(num > low)
    THEN {[proofs |-> S, num |-> num, reaped |-> reaped]}
    ELSE LET least == Min({key[e] : e \in unvisited})
         IN  UNION {
               IF it.orphan /\ dontDeleteHash # GetId(it.proof)
               THEN SweepLoop(unvisited \ {it}, key, S \ {it},
                              decrementOrphans(num, 1).num, low,
                              dontDeleteHash, reaped \cup {it})
               ELSE SweepLoop(unvisited \ {it}, key, S, num, low,
                              dontDeleteHash, reaped)
               : it \in {e \in unvisited : key[e] = least} }

\* mutant of checkOrphanLimit: the sweep starts one orphan too late
checkOrphanLimit_Late(S, key, num, max, dontDeleteHash) ==
    IF num > highWaterMark(max) + 1
    THEN {[proofs |-> x.proofs, num |-> x.num, reaped |-> x.reaped,
           swept |-> TRUE] :
          x \in SweepLoop(S, key, S, num, lowWaterMark(max),
                          dontDeleteHash, {})}
    ELSE {[proofs |-> S, num |-> num, reaped |-> {}, swept |-> FALSE]}

\* checkOrphanLimit(dontDeleteHash)
checkOrphanLimit(S, key, num, max, dontDeleteHash) ==
    IF num > highWaterMark(max)
    THEN {[proofs |-> x.proofs, num |-> x.num, reaped |-> x.reaped,
           swept |-> TRUE] :
          x \in SweepLoop(S, key, S, num, lowWaterMark(max),
                          dontDeleteHash, {})}
    ELSE {[proofs |-> S, num |-> num, reaped |-> {}, swept |-> FALSE]}

\* incrementOrphans(n, dontDeleteHash)
incrementOrphans(S, key, num, max, n, dontDeleteHash) ==
    IF n # 0
    THEN checkOrphanLimit(S, key, num + n, max, dontDeleteHash)
    ELSE {[proofs |-> S, num |-> num, reaped |-> {}, swept |-> FALSE]}

\* ------------------------------------------------------------ operations
\* mutant of add: a stored, non-orphan proof is reported as newly added
add_AlwaysTrue(S, num, proof) ==
    IF isEmpty(proof)
    THEN [proofs |-> S, num |-> num, ret |-> "invalid_argument"]
    ELSE LET found == Find(S, GetId(proof))
         IN  IF found # {}
             THEN LET it == CHOOSE e \in found : TRUE
                  IN  IF it.orphan
                      THEN [proofs |->
                              Modify(S, it, [it EXCEPT !.orphan = FALSE]),
                            num |-> num - 1, ret |-> "false"]
                      ELSE [proofs |-> S, num |-> num, ret |-> "true"]
             ELSE [proofs |-> S \cup {NewEntry(proof)}, num |-> num,
                   ret |-> "true"]

\* mutant of add: the lookup is skipped, every call inserts a new entry
add_NoFind(S, num, proof) ==
    IF isEmpty(proof)
    THEN [proofs |-> S, num |-> num, ret |-> "invalid_argument"]
    ELSE [proofs |-> S \cup {NewEntry(proof)}, num |-> num, ret |-> "true"]

\* mutant of add: the empty proof is not refused
add_NoEmptyCheck(S, num, proof) ==
    LET found == Find(S, GetId(proof))
    IN  IF found # {}
        THEN LET it == CHOOSE e \in found : TRUE
             IN  IF it.orphan
                 THEN [proofs |-> Modify(S, it, [it EXCEPT !.orphan = FALSE]),
                       num |-> num - 1, ret |-> "false"]
                 ELSE [proofs |-> S, num |-> num, ret |-> "false"]
        ELSE [proofs |-> S \cup {NewEntry(proof)}, num |-> num,
              ret |-> "true"]

\* mutant of add: an orphan is demoted without decrementOrphans(1)
add_SkipsDecrement(S, num, proof) ==
    IF isEmpty(proof)
    THEN [proofs |-> S, num |-> num, ret |-> "invalid_argument"]
    ELSE LET hash == GetId(proof)
             found == Find(S, hash)
         IN  IF found # {}
             THEN LET it == CHOOSE e \in found : TRUE
                  IN  IF it.orphan
                      THEN LET d == decrementOrphans(num, 1)
                           IN  IF d.threw
                               THEN [proofs |-> S, num |-> num,
                                     ret |-> "runtime_error"]
                               ELSE [proofs |->
                                       Modify(S, it,
                                              [it EXCEPT !.orphan = FALSE]),
                                     num |-> num, ret |-> "false"]
                      ELSE [proofs |-> S, num |-> num, ret |-> "false"]
             ELSE [proofs |-> S \cup {NewEntry(proof)}, num |-> num,
                   ret |-> "true"]

\* mutant of add: demoting an orphan also unsets its timestamp
add_ResetsStamp(S, num, proof) ==
    IF isEmpty(proof)
    THEN [proofs |-> S, num |-> num, ret |-> "invalid_argument"]
    ELSE LET hash == GetId(proof)
             found == Find(S, hash)
         IN  IF found # {}
             THEN LET it == CHOOSE e \in found : TRUE
                  IN  IF it.orphan
                      THEN LET d == decrementOrphans(num, 1)
                           IN  IF d.threw
                               THEN [proofs |-> S, num |-> num,
                                     ret |-> "runtime_error"]
                               ELSE [proofs |->
                                       Modify(S, it,
                                              [it EXCEPT !.orphan = FALSE,
                                                         !.timeStamp = -1]),
                                     num |-> d.num, ret |-> "false"]
                      ELSE [proofs |-> S, num |-> num, ret |-> "false"]
             ELSE [proofs |-> S \cup {NewEntry(proof)}, num |-> num,
                   ret |-> "true"]

\* add(proof): the new index, the new counter and what the call returns
\* ("true", "false", or the exception it throws)
add(S, num, proof) ==
    IF isEmpty(proof)
    THEN [proofs |-> S, num |-> num, ret |-> "invalid_argument"]
    ELSE LET hash == GetId(proof)
             found == Find(S, hash)
         IN  IF found # {}
             THEN LET it == CHOOSE e \in found : TRUE
                  IN  IF it.orphan
                      THEN LET d == decrementOrphans(num, 1)
                           IN  IF d.threw
                               THEN [proofs |-> S, num |-> num,
                                     ret |-> "runtime_error"]
                               ELSE [proofs |->
                                       Modify(S, it,
                                              [it EXCEPT !.orphan = FALSE]),
                                     num |-> d.num, ret |-> "false"]
                      ELSE [proofs |-> S, num |-> num, ret |-> "false"]
             ELSE [proofs |-> S \cup {NewEntry(proof)}, num |-> num,
                   ret |-> "true"]

\* mutant of addOrphan: a peer that is set replaces the stored one
addOrphan_OverwritePeer(S, num, max, proof, nodeId, t) ==
    LET a == add(S, num, proof)
    IN  IF a.ret \in {"invalid_argument", "runtime_error"}
        THEN {[proofs |-> S, num |-> num, ret |-> a.ret, reaped |-> {},
               swept |-> FALSE]}
        ELSE LET hash == GetId(proof)
                 it == CHOOSE e \in Find(a.proofs, hash) : TRUE
                 e1 == [it EXCEPT
                          !.nodeId = IF nodeId > -1 THEN nodeId ELSE @,
                          !.timeStamp = IF it.timeStamp < 0 THEN t ELSE @]
                 S1 == Modify(a.proofs, it, e1)
                 key == [e \in S1 |-> IF e = e1 THEN it.timeStamp
                                      ELSE e.timeStamp]
             IN  {[proofs |-> IF e1 \in i.proofs
                              THEN Modify(i.proofs, e1,
                                          [e1 EXCEPT !.orphan = TRUE])
                              ELSE i.proofs,
                   num |-> i.num, ret |-> "void", reaped |-> i.reaped,
                   swept |-> i.swept] :
                  i \in incrementOrphans(S1, key, a.num, max,
                                         IF ~e1.orphan THEN 1 ELSE 0, hash)}

\* mutant of addOrphan: the peer is assigned without looking at either
addOrphan_AssignsPeer(S, num, max, proof, nodeId, t) ==
    LET a == add(S, num, proof)
    IN  IF a.ret \in {"invalid_argument", "runtime_error"}
        THEN {[proofs |-> S, num |-> num, ret |-> a.ret, reaped |-> {},
               swept |-> FALSE]}
        ELSE LET hash == GetId(proof)
                 it == CHOOSE e \in Find(a.proofs, hash) : TRUE
                 e1 == [it EXCEPT
                          !.nodeId = nodeId,
                          !.timeStamp = IF it.timeStamp < 0 THEN t ELSE @]
                 S1 == Modify(a.proofs, it, e1)
                 key == [e \in S1 |-> IF e = e1 THEN it.timeStamp
                                      ELSE e.timeStamp]
             IN  {[proofs |-> IF e1 \in i.proofs
                              THEN Modify(i.proofs, e1,
                                          [e1 EXCEPT !.orphan = TRUE])
                              ELSE i.proofs,
                   num |-> i.num, ret |-> "void", reaped |-> i.reaped,
                   swept |-> i.swept] :
                  i \in incrementOrphans(S1, key, a.num, max,
                                         IF ~e1.orphan THEN 1 ELSE 0, hash)}

\* mutant of addOrphan: the timestamp is taken anew on every call
addOrphan_RefreshTime(S, num, max, proof, nodeId, t) ==
    LET a == add(S, num, proof)
    IN  IF a.ret \in {"invalid_argument", "runtime_error"}
        THEN {[proofs |-> S, num |-> num, ret |-> a.ret, reaped |-> {},
               swept |-> FALSE]}
        ELSE LET hash == GetId(proof)
                 it == CHOOSE e \in Find(a.proofs, hash) : TRUE
                 e1 == [it EXCEPT
                          !.nodeId = IF it.nodeId < 0 /\ nodeId > -1
                                     THEN nodeId ELSE @,
                          !.timeStamp = t]
                 S1 == Modify(a.proofs, it, e1)
                 key == [e \in S1 |-> IF e = e1 THEN it.timeStamp
                                      ELSE e.timeStamp]
             IN  {[proofs |-> IF e1 \in i.proofs
                              THEN Modify(i.proofs, e1,
                                          [e1 EXCEPT !.orphan = TRUE])
                              ELSE i.proofs,
                   num |-> i.num, ret |-> "void", reaped |-> i.reaped,
                   swept |-> i.swept] :
                  i \in incrementOrphans(S1, key, a.num, max,
                                         IF ~e1.orphan THEN 1 ELSE 0, hash)}

\* addOrphan(proof, nodeId) when GetTime() returns t: the set of possible
\* outcomes.  The lambda changes the entry in place (e1) before the index
\* re-files it, so during the sweep the entry still sits at the place of
\* its old timestamp.
addOrphan(S, num, max, proof, nodeId, t) ==
    LET a == add(S, num, proof)
    IN  IF a.ret \in {"invalid_argument", "runtime_error"}
        THEN {[proofs |-> S, num |-> num, ret |-> a.ret, reaped |-> {},
               swept |-> FALSE]}
        ELSE LET hash == GetId(proof)
                 it == CHOOSE e \in Find(a.proofs, hash) : TRUE
                 e1 == [it EXCEPT
                          !.nodeId = IF it.nodeId < 0 /\ nodeId > -1
                                     THEN nodeId ELSE @,
                          !.timeStamp = IF it.timeStamp < 0 THEN t ELSE @]
                 S1 == Modify(a.proofs, it, e1)
                 key == [e \in S1 |-> IF e = e1 THEN it.timeStamp
                                      ELSE e.timeStamp]
             IN  {[proofs |-> IF e1 \in i.proofs
                              THEN Modify(i.proofs, e1,
                                          [e1 EXCEPT !.orphan = TRUE])
                              ELSE i.proofs,
                   num |-> i.num, ret |-> "void", reaped |-> i.reaped,
                   swept |-> i.swept] :
                  i \in incrementOrphans(S1, key, a.num, max,
                                         IF ~e1.orphan THEN 1 ELSE 0, hash)}

\* mutant of findOrphansLoop: the orphan flag is not looked at
RECURSIVE findOrphansLoop_All(_, _)
findOrphansLoop_All(range, answer) ==
    IF range = {}
    THEN answer
    ELSE LET it == CHOOSE e \in range : TRUE
         IN  findOrphansLoop_All(range \ {it},
                                 Append(answer,
                                        <<GetId(it.proof), it.nodeId>>))

\* findOrphans(prevOut): the list of (id, nodeId) of the orphans filed
\* under prevOut in the tag_COutPoint index, in the order the loop meets
\* them
RECURSIVE findOrphansLoop(_, _)
findOrphansLoop(range, answer) ==
    IF range = {}
    THEN answer
    ELSE LET it == CHOOSE e \in range : TRUE
         IN  findOrphansLoop(range \ {it},
                             IF it.orphan
                             THEN Append(answer,
                                         <<GetId(it.proof), it.nodeId>>)
                             ELSE answer)

findOrphans(S, prevOut) ==
    findOrphansLoop({e \in S : prevOutPoint(e.proof) = prevOut}, <<>>)

\* mutant of claimOrphan: the flag is cleared, the counter is left alone
claimOrphan_NoDecrement(S, num, hash) ==
    LET found == Find(S, hash)
    IN  IF found # {} /\ (CHOOSE e \in found : TRUE).orphan
        THEN LET it == CHOOSE e \in found : TRUE
             IN  [proofs |-> Modify(S, it, [it EXCEPT !.orphan = FALSE]),
                  num |-> num, ret |-> "void"]
        ELSE [proofs |-> S, num |-> num, ret |-> "void"]

\* claimOrphan(hash)
claimOrphan(S, num, hash) ==
    LET found == Find(S, hash)
    IN  IF found # {} /\ (CHOOSE e \in found : TRUE).orphan
        THEN LET it == CHOOSE e \in found : TRUE
                 d == decrementOrphans(num, 1)
             IN  IF d.threw
                 THEN [proofs |-> S, num |-> num, ret |-> "runtime_error"]
                 ELSE [proofs |-> Modify(S, it, [it EXCEPT !.orphan = FALSE]),
                       num |-> d.num, ret |-> "void"]
        ELSE [proofs |-> S, num |-> num, ret |-> "void"]

\* remove(hash)
remove(S, num, hash) ==
    LET found == Find(S, hash)
    IN  IF found # {}
        THEN LET it == CHOOSE e \in found : TRUE
                 d == decrementOrphans(num, IF it.orphan THEN 1 ELSE 0)
             IN  IF d.threw
                 THEN [proofs |-> S, num |-> num, ret |-> "runtime_error"]
                 ELSE [proofs |-> S \ {it}, num |-> d.num, ret |-> "true"]
        ELSE [proofs |-> S, num |-> num, ret |-> "false"]

\* LOCK(m_lock) on entry and the release when the scope is left, by return
\* or by exception
Lock(depth) == depth + 1
Unlock(depth) == depth - 1

\* ------------------------------------------------- record of the last call
\* op, arg, nodeId, ret: the call and what it returned; swept, reaped: whether
\* checkOrphanLimit() went into its loop and the records the call erased;
\* time: what GetTime() stood at during addOrphan(); wasOrphan: the record of
\* the argument was stored as an orphan when add() or addOrphan() was called;
\* rejected: the identities the filter held when clear() was called
NoCall ==
    [op |-> "none", arg |-> 0, nodeId |-> -1, ret |-> "void",
     swept |-> FALSE, reaped |-> {}, again |-> FALSE, found |-> <<>>,
     time |-> -1, wasOrphan |-> FALSE, rejected |-> {}]

Call(op, arg, ret) == [NoCall EXCEPT !.op = op, !.arg = arg, !.ret = ret]

\* rt follows the sequence add(p); addOrphan(p, peer); claimOrphan(id(p)):
\* stage is the number of its calls made so far, back to back
RtIdle ==
    [stage |-> 0, proof |-> EmptyProof, nodeId |-> -1, numBefore |-> 0,
     peerBefore |-> -1, reaped |-> 0]

\* hist.only: nothing but add() and remove() has been called since Init;
\* while it holds, hist.added are the identities add() inserted and
\* hist.removed those of them that are removed at present
HistOff == [only |-> FALSE, added |-> {}, removed |-> {}]

HistInit == [only |-> TRUE, added |-> {}, removed |-> {}]

\* a thread outside every call: op is the method it is in, arg and nodeId
\* its arguments, time what GetTime() gave it, oldStamp the timestamp its
\* entry is still filed under, threw whether its last call ended in an
\* exception
NoLocal ==
    [op |-> "none", arg |-> EmptyProof, nodeId |-> -1, time |-> -1,
     oldStamp |-> -1, threw |-> FALSE]

\* nobody holds the lock
NoPre == [held |-> FALSE, proofs |-> {}, num |-> 0]

\* ------------------------------------------------------------------ Init
\* The constructed, empty store; maxOrphans is whatever it was configured to.
Init ==
    /\ m_proofs = {}
    /\ m_numOrphans = 0
    /\ m_maxOrphans \in MaxOrphanSettings
    /\ m_recentRejects = {}
    /\ m_lock = 0
    /\ last = NoCall
    /\ rt = RtIdle
    /\ hist = HistInit
    /\ nextId = 0
    /\ pc = [t \in Threads |-> "idle"]
    /\ loc = [t \in Threads |-> NoLocal]
    /\ owner = 0
    /\ pre = NoPre

\* --------------------------------------------------------------- actions
\* bool add(proof): the empty proof is refused before LOCK(m_lock)
Add(proof) ==
    /\ m_lock = 0
    /\ UNCHANGED tvars
    /\ LET r == add(m_proofs, m_numOrphans, proof)
       IN  /\ m_proofs' = r.proofs
           /\ m_numOrphans' = r.num
           /\ m_lock' = IF isEmpty(proof) THEN m_lock
                        ELSE Unlock(Lock(m_lock))
           /\ last' = [Call("add", proof, r.ret) EXCEPT
                         !.again = /\ last.op = "add"
                                   /\ last.arg = proof
                                   /\ last.ret = "true",
                         !.wasOrphan =
                             \E e \in Find(m_proofs, GetId(proof)) : e.orphan]
           /\ rt' = IF r.ret \in {"true", "false"}
                    THEN [RtIdle EXCEPT !.stage = 1, !.proof = proof]
                    ELSE RtIdle
           /\ hist' = IF hist.only /\ r.ret \in {"true", "false"}
                      THEN [hist EXCEPT
                              !.added = @ \cup {GetId(proof)},
                              !.removed = @ \ {GetId(proof)}]
                      ELSE hist
    /\ UNCHANGED <<m_maxOrphans, m_recentRejects, nextId>>

\* void addOrphan(proof, nodeId), GetTime() returning t: LOCK(m_lock), then
\* add(), which locks again
AddOrphanCall(proof, nodeId, t) ==
    /\ m_lock = 0
    /\ UNCHANGED tvars
    /\ \E r \in addOrphan(m_proofs, m_numOrphans, m_maxOrphans, proof,
                          nodeId, t) :
           /\ m_proofs' = r.proofs
           /\ m_numOrphans' = r.num
           /\ m_lock' = IF isEmpty(proof) THEN Unlock(Lock(m_lock))
                        ELSE Unlock(Unlock(Lock(Lock(m_lock))))
           /\ last' = [Call("addOrphan", proof, r.ret) EXCEPT
                         !.nodeId = nodeId, !.swept = r.swept,
                         !.reaped = r.reaped, !.time = t,
                         !.wasOrphan =
                             \E e \in Find(m_proofs, GetId(proof)) : e.orphan]
           /\ rt' = IF rt.stage = 1 /\ rt.proof = proof /\ r.ret = "void"
                    THEN [stage |-> 2, proof |-> proof, nodeId |-> nodeId,
                          numBefore |-> m_numOrphans,
                          peerBefore |->
                             (CHOOSE e \in Find(m_proofs, GetId(proof)) :
                                 TRUE).nodeId,
                          reaped |-> Cardinality(r.reaped)]
                    ELSE RtIdle
    /\ hist' = HistOff
    /\ UNCHANGED <<m_maxOrphans, m_recentRejects>>

AddOrphan(proof, nodeId) ==
    /\ \E t \in Times : AddOrphanCall(proof, nodeId, t)
    /\ UNCHANGED nextId

\* std::list<...> findOrphans(prevOut)
FindOrphans(prevOut) ==
    /\ m_lock = 0
    /\ UNCHANGED tvars
    /\ m_lock' = Unlock(Lock(m_lock))
    /\ last' = [Call("findOrphans", prevOut, "list") EXCEPT
                  !.found = findOrphans(m_proofs, prevOut)]
    /\ rt' = RtIdle
    /\ hist' = HistOff
    /\ UNCHANGED <<store, nextId>>

\* void claimOrphan(hash)
ClaimOrphan(hash) ==
    /\ m_lock = 0
    /\ UNCHANGED tvars
    /\ LET r == claimOrphan(m_proofs, m_numOrphans, hash)
       IN  /\ m_proofs' = r.proofs
           /\ m_numOrphans' = r.num
           /\ last' = Call("claimOrphan", hash, r.ret)
    /\ m_lock' = Unlock(Lock(m_lock))
    /\ rt' = IF rt.stage = 2 /\ GetId(rt.proof) = hash
             THEN [rt EXCEPT !.stage = 3]
             ELSE RtIdle
    /\ hist' = HistOff
    /\ UNCHANGED <<m_maxOrphans, m_recentRejects, nextId>>

\* bool remove(hash)
Remove(hash) ==
    /\ m_lock = 0
    /\ UNCHANGED tvars
    /\ LET r == remove(m_proofs, m_numOrphans, hash)
       IN  /\ m_proofs' = r.proofs
           /\ m_numOrphans' = r.num
           /\ last' = Call("remove", hash, r.ret)
           /\ hist' = IF hist.only /\ r.ret = "true"
                      THEN [hist EXCEPT !.removed = @ \cup {hash}]
                      ELSE hist
    /\ m_lock' = Unlock(Lock(m_lock))
    /\ rt' = RtIdle
    /\ UNCHANGED <<m_maxOrphans, m_recentRejects, nextId>>

\* markProofRejected() that starts the filter over with the one identity
MarkProofRejected_StartsOver(hash) ==
    /\ m_lock = 0
    /\ UNCHANGED tvars
    /\ m_recentRejects' = {hash}
    /\ m_lock' = Unlock(Lock(m_lock))
    /\ last' = Call("markProofRejected", hash, "void")
    /\ rt' = RtIdle
    /\ hist' = HistOff
    /\ UNCHANGED <<m_proofs, m_numOrphans, m_maxOrphans, nextId>>

\* void markProofRejected(hash)
MarkProofRejected(hash) ==
    /\ m_lock = 0
    /\ UNCHANGED tvars
    /\ m_recentRejects' = m_recentRejects \cup {hash}
    /\ m_lock' = Unlock(Lock(m_lock))
    /\ last' = Call("markProofRejected", hash, "void")
    /\ rt' = RtIdle
    /\ hist' = HistOff
    /\ UNCHANGED <<m_proofs, m_numOrphans, m_maxOrphans, nextId>>

\* void newBlockFound()
NewBlockFound ==
    /\ m_lock = 0
    /\ UNCHANGED tvars
    /\ m_recentRejects' = {}
    /\ m_lock' = Unlock(Lock(m_lock))
    /\ last' = Call("newBlockFound", 0, "void")
    /\ rt' = RtIdle
    /\ hist' = HistOff
    /\ UNCHANGED <<m_proofs, m_numOrphans, m_maxOrphans, nextId>>

\* clear() without m_recentRejects.reset()
Clear_KeepsRejects ==
    /\ m_lock = 0
    /\ UNCHANGED tvars
    /\ m_proofs' = {}
    /\ m_recentRejects' = m_recentRejects
    /\ m_numOrphans' = 0
    /\ m_lock' = Unlock(Lock(m_lock))
    /\ last' = [Call("clear", 0, "void") EXCEPT
                  !.reaped = m_proofs, !.rejected = m_recentRejects]
    /\ rt' = RtIdle
    /\ hist' = HistOff
    /\ UNCHANGED <<m_maxOrphans, nextId>>

\* void clear()
Clear ==
    /\ m_lock = 0
    /\ UNCHANGED tvars
    /\ m_proofs' = {}
    /\ m_recentRejects' = {}
    /\ m_numOrphans' = 0
    /\ m_lock' = Unlock(Lock(m_lock))
    /\ last' = [Call("clear", 0, "void") EXCEPT
                  !.reaped = m_proofs, !.rejected = m_recentRejects]
    /\ rt' = RtIdle
    /\ hist' = HistOff
    /\ UNCHANGED <<m_maxOrphans, nextId>>

\* setMaxOrphans() that brings the orphans down to the new limit at once
SetMaxOrphans_Trims(max) ==
    /\ m_lock = 0
    /\ UNCHANGED tvars
    /\ m_maxOrphans' = max
    /\ \E x \in SweepLoop(m_proofs, [e \in m_proofs |-> e.timeStamp],
                          m_proofs, m_numOrphans, lowWaterMark(max),
                          EmptyProof, {}) :
           /\ m_proofs' = x.proofs
           /\ m_numOrphans' = x.num
    /\ m_lock' = Unlock(Lock(m_lock))
    /\ last' = Call("setMaxOrphans", max, "void")
    /\ rt' = RtIdle
    /\ hist' = HistOff
    /\ UNCHANGED <<m_recentRejects, nextId>>

\* void setMaxOrphans(max)
SetMaxOrphans(max) ==
    /\ m_lock = 0
    /\ UNCHANGED tvars
    /\ m_maxOrphans' = max
    /\ m_lock' = Unlock(Lock(m_lock))
    /\ last' = Call("setMaxOrphans", max, "void")
    /\ rt' = RtIdle
    /\ hist' = HistOff
    /\ UNCHANGED <<m_proofs, m_numOrphans, m_recentRejects, nextId>>

\* addOrphan with an identity never used before, no other call in between
FillAddOrphan ==
    /\ nextId + 1 \in FillIds
    /\ \E nodeId \in NodeIds, t \in Times :
           AddOrphanCall(nextId + 1, nodeId, t)
    /\ nextId' = nextId + 1

\* -------------------------------------------------------- specifications
\* Spec: the record index and the orphan accounting, NumIds identities
Next ==
    \/ \E proof \in Proofs : Add(proof)
    \/ \E proof \in Proofs, nodeId \in NodeIds : AddOrphan(proof, nodeId)
    \/ \E prevOut \in OutPoints : FindOrphans(prevOut)
    \/ \E hash \in Ids : ClaimOrphan(hash)
    \/ \E hash \in Ids : Remove(hash)
    \/ Clear
    \/ \E max \in MaxOrphanSettings : SetMaxOrphans(max)

Spec == Init /\ [][Next]_vars

\* SpecAll: the same with the recently-rejected filter, NumIds - 1 identities
NextAll ==
    \/ \E proof \in {EmptyProof} \cup FewIds : Add(proof)
    \/ \E proof \in {EmptyProof} \cup FewIds, nodeId \in NodeIds :
           AddOrphan(proof, nodeId)
    \/ \E prevOut \in OutPoints : FindOrphans(prevOut)
    \/ \E hash \in FewIds : ClaimOrphan(hash)
    \/ \E hash \in FewIds : Remove(hash)
    \/ \E hash \in FewIds : MarkProofRejected(hash)
    \/ NewBlockFound
    \/ Clear
    \/ \E max \in MaxOrphanSettings : SetMaxOrphans(max)

SpecAll == Init /\ [][NextAll]_vars

\* SpecFill: maxOrphans fixed, an empty store, addOrphan with pairwise
\* distinct identities and nothing else
InitFill ==
    /\ m_proofs = {}
    /\ m_numOrphans = 0
    /\ m_maxOrphans \in FillOrphanSettings
    /\ m_recentRejects = {}
    /\ m_lock = 0
    /\ last = NoCall
    /\ rt = RtIdle
    /\ hist = HistOff
    /\ nextId = 0
    /\ pc = [t \in Threads |-> "idle"]
    /\ loc = [t \in Threads |-> NoLocal]
    /\ owner = 0
    /\ pre = NoPre

NextFill == FillAddOrphan

SpecFill == InitFill /\ [][NextFill]_vars

\* ------------------------------------------------- threads, step by step
\* The recursive mutex: a thread gets it when it is free or its own.
CanLock(t) == owner = 0 \/ owner = t

\* the part of the state the thread-level steps never touch
seqvars == <<m_maxOrphans, m_recentRejects, last, rt, hist, nextId>>

\* what the thread that holds the lock has at `it`
Here(t) == CHOOSE e \in Find(m_proofs, GetId(loc[t].arg)) : TRUE

\* the method returns or is left by an exception: the scope of each
\* LOCK(m_lock) the thread is in is left, depth of them
Release(t, depth, threw) ==
    /\ m_lock' = IF depth = 2 THEN Unlock(Unlock(m_lock)) ELSE Unlock(m_lock)
    /\ owner' = IF m_lock' = 0 THEN 0 ELSE owner
    /\ pre' = IF m_lock' = 0 THEN NoPre ELSE pre
    /\ pc' = [pc EXCEPT ![t] = "idle"]
    /\ loc' = [loc EXCEPT ![t] = [NoLocal EXCEPT !.threw = threw]]

\* add() of the empty proof: the throw comes before LOCK(m_lock)
TAddEmpty(t) ==
    /\ pc[t] = "idle"
    /\ isEmpty(EmptyProof)
    /\ loc' = [loc EXCEPT ![t] = [NoLocal EXCEPT !.threw = TRUE]]
    /\ UNCHANGED <<store, m_lock, seqvars, pc, owner, pre>>

\* a thread calls add() with a proof that is not empty, addOrphan(),
\* claimOrphan() or remove() and comes to the LOCK(m_lock) of the method
TCall(t) ==
    /\ pc[t] = "idle"
    /\ pc' = [pc EXCEPT ![t] = "LOCK"]
    /\ loc' = [loc EXCEPT ![t] = NoLocal]
    /\ UNCHANGED <<store, m_lock, seqvars, owner, pre>>

\* mutant of TLock: the method goes into its body without waiting
TLock_NoWait(t, op, arg, nodeId) ==
    /\ pc[t] = "LOCK"
    /\ op \in {"add", "addOrphan", "claimOrphan", "remove"}
    /\ op = "add" => ~isEmpty(arg)
    /\ op # "addOrphan" => nodeId = -1
    /\ m_lock' = Lock(m_lock)
    /\ owner' = t
    /\ pre' = [held |-> TRUE, proofs |-> m_proofs, num |-> m_numOrphans]
    /\ loc' = [loc EXCEPT ![t] = [NoLocal EXCEPT !.op = op, !.arg = arg,
                                                   !.nodeId = nodeId]]
    /\ pc' = [pc EXCEPT ![t] = CASE op = "add" -> "add_find"
                                 [] op = "addOrphan" -> "ao_add"
                                 [] op = "claimOrphan" -> "co_find"
                                 [] op = "remove" -> "rm_find"]
    /\ UNCHANGED <<store, seqvars>>

\* LOCK(m_lock) of the method the thread called.  The arguments are the
\* caller's own and nothing reads them before the lock is held; they are
\* drawn here.
TLock(t, op, arg, nodeId) ==
    /\ pc[t] = "LOCK"
    /\ op \in {"add", "addOrphan", "claimOrphan", "remove"}
    /\ op = "add" => ~isEmpty(arg)
    /\ op # "addOrphan" => nodeId = -1
    /\ CanLock(t)
    /\ m_lock' = Lock(m_lock)
    /\ owner' = t
    /\ pre' = [held |-> TRUE, proofs |-> m_proofs, num |-> m_numOrphans]
    /\ loc' = [loc EXCEPT ![t] = [NoLocal EXCEPT !.op = op, !.arg = arg,
                                                   !.nodeId = nodeId]]
    /\ pc' = [pc EXCEPT ![t] = CASE op = "add" -> "add_find"
                                 [] op = "addOrphan" -> "ao_add"
                                 [] op = "claimOrphan" -> "co_find"
                                 [] op = "remove" -> "rm_find"]
    /\ UNCHANGED <<store, seqvars>>

\* mutant of TAddEnter: the LOCK(m_lock) of add() waits for a free lock
TAddEnter_Waits(t) ==
    /\ pc[t] = "ao_add"
    /\ IF isEmpty(loc[t].arg)
       THEN /\ pc' = [pc EXCEPT ![t] = "throw"]
            /\ UNCHANGED m_lock
       ELSE /\ owner = 0
            /\ m_lock' = Lock(m_lock)
            /\ pc' = [pc EXCEPT ![t] = "add_find"]
    /\ UNCHANGED <<store, seqvars, loc, owner, pre>>

\* addOrphan() calls add(): the empty proof makes add() throw, any other
\* takes it to its LOCK(m_lock), with the lock of addOrphan() held
TAddEnter(t) ==
    /\ pc[t] = "ao_add"
    /\ IF isEmpty(loc[t].arg)
       THEN /\ pc' = [pc EXCEPT ![t] = "throw"]
            /\ UNCHANGED m_lock
       ELSE /\ CanLock(t)
            /\ m_lock' = Lock(m_lock)
            /\ pc' = [pc EXCEPT ![t] = "add_find"]
    /\ UNCHANGED <<store, seqvars, loc, owner, pre>>

\* add(): find(hash); a stored orphan gets decrementOrphans(1) first, an
\* unknown proof is emplaced
TAddFind(t) ==
    /\ pc[t] = "add_find"
    /\ IF Find(m_proofs, GetId(loc[t].arg)) # {}
       THEN IF Here(t).orphan
            THEN /\ m_numOrphans' = decrementOrphans(m_numOrphans, 1).num
                 /\ pc' = [pc EXCEPT ![t] =
                              IF decrementOrphans(m_numOrphans, 1).threw
                              THEN "throw" ELSE "add_modify"]
                 /\ UNCHANGED m_proofs
            ELSE /\ pc' = [pc EXCEPT ![t] = "add_unlock"]
                 /\ UNCHANGED <<m_proofs, m_numOrphans>>
       ELSE /\ m_proofs' = m_proofs \cup {NewEntry(loc[t].arg)}
            /\ pc' = [pc EXCEPT ![t] = "add_unlock"]
            /\ UNCHANGED m_numOrphans
    /\ UNCHANGED <<m_lock, seqvars, loc, owner, pre>>

\* add(): modify(it, orphan = false)
TAddModify(t) ==
    /\ pc[t] = "add_modify"
    /\ m_proofs' = Modify(m_proofs, Here(t),
                          [Here(t) EXCEPT !.orphan = FALSE])
    /\ pc' = [pc EXCEPT ![t] = "add_unlock"]
    /\ UNCHANGED <<m_numOrphans, m_lock, seqvars, loc, owner, pre>>

\* add() returns: back in addOrphan() with its lock still held, or out
TAddUnlock(t) ==
    /\ pc[t] = "add_unlock"
    /\ IF loc[t].op = "addOrphan"
       THEN /\ m_lock' = Unlock(m_lock)
            /\ pc' = [pc EXCEPT ![t] = "ao_modify"]
            /\ UNCHANGED <<loc, owner, pre>>
       ELSE Release(t, 1, FALSE)
    /\ UNCHANGED <<store, seqvars>>

\* addOrphan(), the lambda: the peer and the timestamp, GetTime() giving
\* time when it is called
TAoModify(t, time) ==
    /\ pc[t] = "ao_modify"
    /\ m_proofs' =
         Modify(m_proofs, Here(t),
                [Here(t) EXCEPT
                   !.nodeId = IF Here(t).nodeId < 0 /\ loc[t].nodeId > -1
                              THEN loc[t].nodeId ELSE @,
                   !.timeStamp = IF Here(t).timeStamp < 0 THEN time ELSE @])
    /\ loc' = [loc EXCEPT ![t].oldStamp = Here(t).timeStamp,
                          ![t].time = IF Here(t).timeStamp < 0
                                      THEN time ELSE -1]
    /\ pc' = [pc EXCEPT ![t] = "ao_inc"]
    /\ UNCHANGED <<m_numOrphans, m_lock, seqvars, owner, pre>>

\* addOrphan(), the lambda: incrementOrphans(!e.orphan, hash), the sweep
\* included; the entry is still filed under its old timestamp
TAoIncrement(t) ==
    /\ pc[t] = "ao_inc"
    /\ \E i \in incrementOrphans(
                   m_proofs,
                   [e \in m_proofs |-> IF e = Here(t) THEN loc[t].oldStamp
                                       ELSE e.timeStamp],
                   m_numOrphans, m_maxOrphans,
                   IF ~Here(t).orphan THEN 1 ELSE 0, GetId(loc[t].arg)) :
           /\ m_proofs' = i.proofs
           /\ m_numOrphans' = i.num
    /\ pc' = [pc EXCEPT ![t] = "ao_flag"]
    /\ UNCHANGED <<m_lock, seqvars, loc, owner, pre>>

\* addOrphan(), the lambda: e.orphan = true
TAoFlag(t) ==
    /\ pc[t] = "ao_flag"
    /\ m_proofs' = IF Find(m_proofs, GetId(loc[t].arg)) # {}
                   THEN Modify(m_proofs, Here(t),
                               [Here(t) EXCEPT !.orphan = TRUE])
                   ELSE m_proofs
    /\ pc' = [pc EXCEPT ![t] = "unlock"]
    /\ UNCHANGED <<m_numOrphans, m_lock, seqvars, loc, owner, pre>>

\* an exception leaves the method: its lock scopes are unwound
TThrow(t) ==
    /\ pc[t] = "throw"
    /\ Release(t, m_lock, TRUE)
    /\ UNCHANGED <<store, seqvars>>

\* claimOrphan(): find(hash); a stored orphan gets decrementOrphans(1)
TCoFind(t) ==
    /\ pc[t] = "co_find"
    /\ IF /\ Find(m_proofs, loc[t].arg) # {}
          /\ Here(t).orphan
       THEN /\ m_numOrphans' = decrementOrphans(m_numOrphans, 1).num
            /\ pc' = [pc EXCEPT ![t] =
                         IF decrementOrphans(m_numOrphans, 1).threw
                         THEN "throw" ELSE "co_modify"]
       ELSE /\ pc' = [pc EXCEPT ![t] = "unlock"]
            /\ UNCHANGED m_numOrphans
    /\ UNCHANGED <<m_proofs, m_lock, seqvars, loc, owner, pre>>

\* claimOrphan(): modify(it, orphan = false)
TCoModify(t) ==
    /\ pc[t] = "co_modify"
    /\ m_proofs' = Modify(m_proofs, Here(t),
                          [Here(t) EXCEPT !.orphan = FALSE])
    /\ pc' = [pc EXCEPT ![t] = "unlock"]
    /\ UNCHANGED <<m_numOrphans, m_lock, seqvars, loc, owner, pre>>

\* remove(): find(hash); decrementOrphans(it->orphan) for a stored record
TRmFind(t) ==
    /\ pc[t] = "rm_find"
    /\ IF Find(m_proofs, loc[t].arg) # {}
       THEN /\ m_numOrphans' =
                 decrementOrphans(m_numOrphans,
                                  IF Here(t).orphan THEN 1 ELSE 0).num
            /\ pc' = [pc EXCEPT ![t] =
                         IF decrementOrphans(
                                m_numOrphans,
                                IF Here(t).orphan THEN 1 ELSE 0).threw
                         THEN "throw" ELSE "rm_erase"]
       ELSE /\ pc' = [pc EXCEPT ![t] = "unlock"]
            /\ UNCHANGED m_numOrphans
    /\ UNCHANGED <<m_proofs, m_lock, seqvars, loc, owner, pre>>

\* remove(): m_proofs.erase(it)
TRmErase(t) ==
    /\ pc[t] = "rm_erase"
    /\ m_proofs' = m_proofs \ {Here(t)}
    /\ pc' = [pc EXCEPT ![t] = "unlock"]
    /\ UNCHANGED <<m_numOrphans, m_lock, seqvars, loc, owner, pre>>

\* addOrphan(), claimOrphan() or remove() returns
TUnlock(t) ==
    /\ pc[t] = "unlock"
    /\ Release(t, 1, FALSE)
    /\ UNCHANGED <<store, seqvars>>

\* the steps of a thread that holds the lock
TStep(t) ==
    \/ TAddEnter(t)
    \/ TAddFind(t)
    \/ TAddModify(t)
    \/ TAddUnlock(t)
    \/ \E time \in Times : TAoModify(t, time)
    \/ TAoIncrement(t)
    \/ TAoFlag(t)
    \/ TThrow(t)
    \/ TCoFind(t)
    \/ TCoModify(t)
    \/ TRmFind(t)
    \/ TRmErase(t)
    \/ TUnlock(t)

\* the thread at LOCK(m_lock) gets the lock
TAcquire(t) ==
    \E op \in {"add", "addOrphan", "claimOrphan", "remove"},
       arg \in {EmptyProof} \cup FewIds, nodeId \in NodeIds :
        TLock(t, op, arg, nodeId)

\* SpecThreads: NumThreads threads, NumIds - 1 identities
NextThreads ==
    \/ \E t \in Threads : TAddEmpty(t)
    \/ \E t \in Threads : TCall(t)
    \/ \E t \in Threads : TAcquire(t)
    \/ \E t \in Threads : TAddEnter(t)
    \/ \E t \in Threads : TAddFind(t)
    \/ \E t \in Threads : TAddModify(t)
    \/ \E t \in Threads : TAddUnlock(t)
    \/ \E t \in Threads, time \in Times : TAoModify(t, time)
    \/ \E t \in Threads : TAoIncrement(t)
    \/ \E t \in Threads : TAoFlag(t)
    \/ \E t \in Threads : TThrow(t)
    \/ \E t \in Threads : TCoFind(t)
    \/ \E t \in Threads : TCoModify(t)
    \/ \E t \in Threads : TRmFind(t)
    \/ \E t \in Threads : TRmErase(t)
    \/ \E t \in Threads : TUnlock(t)

SpecThreads == Init /\ [][NextThreads]_vars

\* SpecThreadsFair: a thread that holds the lock goes on running, and a
\* thread at LOCK(m_lock) gets the lock if it is free again and again
Fairness ==
    \A t \in Threads : WF_vars(TStep(t)) /\ SF_vars(TAcquire(t))

SpecThreadsFair == SpecThreads /\ Fairness

\* ----------------------------------------------------------------- claims
\* C1: in every reachable state numOrphans() is the number of stored
\* records whose orphan flag is true.
CounterMatchesFlags ==
    numOrphans = Cardinality({e \in m_proofs : e.orphan})

\* C1 witness: orphans and non-orphans are stored side by side after an
\* eviction sweep ran.
CounterMatchesFlagsWitness ==
    /\ last.op = "addOrphan"
    /\ last.reaped # {}
    /\ numOrphans = 1
    /\ \E e \in m_proofs : ~e.orphan

\* C2 as stated: with maxOrphans fixed and only addOrphan calls with
\* distinct identities, numOrphans() never exceeds floor(maxOrphans * 1.25).
FillNeverAboveHigh ==
    numOrphans <= (m_maxOrphans * 5) \div 4

\* C2 amended: numOrphans() never exceeds floor(maxOrphans * 1.25), or 1
\* when maxOrphans is 0 (the record being admitted is never reaped).
FillNeverAboveHighOrOne ==
    numOrphans <= IF m_maxOrphans = 0 THEN 1 ELSE (m_maxOrphans * 5) \div 4

\* C2 witness: maxOrphans = 4, the sixth orphan went over the high
\* watermark 5 and the sweep brought the count down to 4.
FillWitness ==
    /\ m_maxOrphans = 4
    /\ last.op = "addOrphan"
    /\ last.swept
    /\ Cardinality(last.reaped) = 2
    /\ numOrphans = 4

\* C3 as stated: when an addOrphan call ran the eviction sweep,
\* numOrphans() is at most maxOrphans when the call returns.
SweepReachesLow ==
    (last.op = "addOrphan" /\ last.swept) => numOrphans <= m_maxOrphans

\* C3 amended: when an addOrphan call ran the eviction sweep, numOrphans()
\* is at most maxOrphans when the call returns, or 1 when maxOrphans is 0.
SweepReachesLowOrOne ==
    (last.op = "addOrphan" /\ last.swept) =>
        numOrphans <= IF m_maxOrphans = 0 THEN 1 ELSE m_maxOrphans

\* C3 witness: a sweep after maxOrphans was lowered reaped two records
\* and left one orphan.
SweepWitness ==
    /\ last.op = "addOrphan"
    /\ last.swept
    /\ Cardinality(last.reaped) = 2
    /\ m_maxOrphans = 1
    /\ numOrphans = 1

\* C4: when addOrphan returns for a non-empty proof, the record of that
\* proof is stored with its orphan flag set, also after a sweep.
AdmittedIsStoredOrphan ==
    (last.op = "addOrphan" /\ ~isEmpty(last.arg)) =>
        /\ last.ret = "void"
        /\ \E e \in m_proofs : GetId(e.proof) = GetId(last.arg) /\ e.orphan

\* C4 witness: the call reaped another record and its own is stored.
AdmittedWitness ==
    /\ last.op = "addOrphan"
    /\ last.reaped # {}
    /\ \E e \in m_proofs : GetId(e.proof) = GetId(last.arg) /\ e.orphan

\* C5: after an addOrphan call that reaped records, no surviving orphan
\* other than the admitted one is older than a reaped record.
OldestReapedFirst ==
    (last.op = "addOrphan" /\ last.reaped # {}) =>
        \A s \in m_proofs :
            (s.orphan /\ GetId(s.proof) # GetId(last.arg)) =>
                \A r \in last.reaped : ~(s.timeStamp < r.timeStamp)

\* C5 witness: maxOrphans = 2; A (time 0) and B (time 1) were orphans, the
\* call admitting C reaped A only, B and C are stored.
OldestReapedWitness ==
    /\ last.op = "addOrphan"
    /\ m_maxOrphans = 2
    /\ Cardinality(last.reaped) = 1
    /\ \E r \in last.reaped : r.timeStamp = 0
    /\ \E s \in m_proofs :
          s.orphan /\ GetId(s.proof) # GetId(last.arg) /\ s.timeStamp = 1
    /\ \E c \in m_proofs : GetId(c.proof) = GetId(last.arg) /\ c.orphan

\* C6 as stated: after add(p); addOrphan(p, peer); claimOrphan(id) the
\* record is stored, not an orphan, its peer is the peer passed to
\* addOrphan, and numOrphans() is what it was before the addOrphan call.
RoundTripAsStated ==
    rt.stage = 3 =>
        /\ \E e \in m_proofs :
              /\ GetId(e.proof) = GetId(rt.proof)
              /\ ~e.orphan
              /\ e.nodeId = rt.nodeId
        /\ numOrphans = rt.numBefore

\* C6 amended: after the three calls the record is stored and not an
\* orphan; its peer is the peer passed to addOrphan if the record had no
\* peer before that call and the passed peer is set, and the peer it had
\* before otherwise; numOrphans() is its value before the addOrphan call
\* less the number of records that call reaped.
RoundTripAmended ==
    rt.stage = 3 =>
        /\ \E e \in m_proofs :
              /\ GetId(e.proof) = GetId(rt.proof)
              /\ ~e.orphan
              /\ e.nodeId = IF rt.peerBefore < 0 /\ rt.nodeId > -1
                            THEN rt.nodeId ELSE rt.peerBefore
        /\ numOrphans = rt.numBefore - rt.reaped

\* C6 witness: the three calls were made on a record that had a peer, with
\* another peer, and the addOrphan call reaped a record.
RoundTripWitness ==
    /\ rt.stage = 3
    /\ rt.reaped > 0
    /\ rt.peerBefore > -1
    /\ rt.nodeId > -1
    /\ rt.nodeId # rt.peerBefore

\* C7: add() of a proof that is not stored returns true; add() of the same
\* proof right after returns false and leaves the whole store as it was.
AddTwiceIsAddOnce ==
    [][/\ (/\ last'.op = "add"
           /\ ~isEmpty(last'.arg)
           /\ Find(m_proofs, GetId(last'.arg)) = {}) => last'.ret = "true"
       /\ (/\ last.op = "add"
           /\ last.ret = "true"
           /\ last'.op = "add"
           /\ last'.arg = last.arg) =>
              (last'.ret = "false" /\ store' = store)]_vars

\* C7 witness: the second of two add() calls in a row has returned false,
\* with a record of another proof stored and the filter not empty.
AddTwiceWitness ==
    /\ last.op = "add"
    /\ last.again
    /\ last.ret = "false"
    /\ Cardinality(m_proofs) = 2
    /\ m_recentRejects # {}

\* C8: no two stored records have the same identity, and after add() and
\* remove() calls only, size() is the number of identities added less the
\* number of those that are removed at present.
OneRecordPerIdentity ==
    /\ \A e, f \in m_proofs : GetId(e.proof) = GetId(f.proof) => e = f
    /\ hist.only =>
          size = Cardinality(hist.added) - Cardinality(hist.removed)

\* C8 witness: three identities were added, one of them is removed, and
\* the last add() found its proof stored.
OneRecordWitness ==
    /\ hist.only
    /\ Cardinality(hist.added) = 3
    /\ Cardinality(hist.removed) = 1
    /\ last.op = "add"
    /\ last.ret = "false"

\* C9: findOrphans(R) returns the (identity, peer) pairs of exactly the
\* stored orphans that reference R, each once, and changes no state.
FindOrphansExact ==
    [][last'.op = "findOrphans" =>
         /\ {last'.found[i] : i \in 1..Len(last'.found)} =
               {<<GetId(e.proof), e.nodeId>> :
                  e \in {x \in m_proofs :
                           x.orphan /\ prevOutPoint(x.proof) = last'.arg}}
         /\ Len(last'.found) =
               Cardinality({x \in m_proofs :
                              x.orphan /\ prevOutPoint(x.proof) = last'.arg})
         /\ store' = store]_vars

\* C9 witness: an orphan and a non-orphan reference R, and findOrphans(R)
\* returned one pair.
FindOrphansWitness ==
    /\ last.op = "findOrphans"
    /\ Len(last.found) = 1
    /\ \E e, f \in m_proofs :
          /\ prevOutPoint(e.proof) = last.arg
          /\ prevOutPoint(f.proof) = last.arg
          /\ e.orphan
          /\ ~f.orphan
          /\ last.found = <<(<<GetId(e.proof), e.nodeId>>)>>

\* C10: add() and addOrphan() of the empty proof throw invalid_argument,
\* leave the whole store as it was, and leave the lock free.
EmptyProofRefused ==
    [][(last'.op \in {"add", "addOrphan"} /\ isEmpty(last'.arg)) =>
         /\ last'.ret = "invalid_argument"
         /\ store' = store
         /\ m_lock' = 0]_vars

\* C10 witness: addOrphan() of the empty proof has thrown on a store that
\* holds an orphan and a rejected identity.
EmptyProofWitness ==
    /\ last.op = "addOrphan"
    /\ isEmpty(last.arg)
    /\ last.ret = "invalid_argument"
    /\ numOrphans = 1
    /\ m_recentRejects # {}
    /\ m_lock = 0

\* C13: after clear(), whatever the state before, size() is 0, numOrphans()
\* is 0 and isRecentlyRejectedProof(X) is false for every X that was marked
\* rejected before.
ClearEmptiesAll ==
    last.op = "clear" =>
        /\ size = 0
        /\ numOrphans = 0
        /\ \A X \in last.rejected : X \notin m_recentRejects

\* C13 witness: clear() was called on a store that held an orphan, a
\* non-orphan and a rejected identity.
ClearEmptiesAllWitness ==
    /\ last.op = "clear"
    /\ last.rejected # {}
    /\ \E e \in last.reaped : e.orphan
    /\ \E e \in last.reaped : ~e.orphan
    /\ m_proofs = {}

\* C14: with the filter taken as an exact set, an identity that is rejected
\* stays rejected over every call but newBlockFound() and clear(), the call
\* markProofRejected(X) leaves X rejected, newBlockFound() leaves nothing
\* rejected, and an identity that is not rejected becomes rejected by
\* markProofRejected() of itself only.
RejectedUntilNewBlock ==
    [][/\ \A X \in FewIds :
            (X \in m_recentRejects /\ last'.op \notin {"newBlockFound", "clear"})
                => X \in m_recentRejects'
       /\ last'.op = "markProofRejected" => last'.arg \in m_recentRejects'
       /\ last'.op = "newBlockFound" => m_recentRejects' = {}
       /\ \A X \in FewIds :
            (X \notin m_recentRejects /\ X \in m_recentRejects')
                => (last'.op = "markProofRejected" /\ last'.arg = X)]_vars

\* C14 witness: the record of a rejected identity was stored as an orphan
\* and has just been removed; the identity is still rejected.
RejectedUntilNewBlockWitness ==
    /\ last.op = "remove"
    /\ last.ret = "true"
    /\ last.arg \in m_recentRejects
    /\ m_recentRejects # FewIds

\* C15: add(proof) for an identity stored as an orphan returns false, clears
\* the orphan flag, takes exactly one off numOrphans(), and leaves size(),
\* the record's peer and timestamp and every other record as they were.
AddDemotesOrphan ==
    [][\A e \in m_proofs :
          (last'.op = "add" /\ GetId(last'.arg) = GetId(e.proof) /\ e.orphan)
              => /\ last'.ret = "false"
                 /\ m_proofs' = (m_proofs \ {e}) \cup
                                    {[proof |-> e.proof, nodeId |-> e.nodeId,
                                      timeStamp |-> e.timeStamp,
                                      orphan |-> FALSE]}
                 /\ numOrphans' = numOrphans - 1
                 /\ size' = size]_vars

\* C15 witness: add() has returned false for a record that was an orphan
\* with a peer and a timestamp; another orphan is stored beside it.
AddDemotesOrphanWitness ==
    /\ last.op = "add"
    /\ last.wasOrphan
    /\ last.ret = "false"
    /\ numOrphans >= 1
    /\ \E e \in Find(m_proofs, GetId(last.arg)) :
           ~e.orphan /\ e.nodeId >= 0 /\ e.timeStamp >= 0

\* C16: the peer of a stored record changes only in addOrphan() of its
\* identity, only from unset (negative) and only to a supplied peer that is
\* set; a peer that is set stays as long as the record is stored.
PeerSetOnce ==
    [][\A e \in m_proofs, f \in m_proofs' :
          (GetId(e.proof) = GetId(f.proof) /\ f.nodeId # e.nodeId)
              => /\ last'.op = "addOrphan"
                 /\ GetId(last'.arg) = GetId(e.proof)
                 /\ e.nodeId < 0
                 /\ last'.nodeId > -1
                 /\ f.nodeId = last'.nodeId]_vars

\* C16 witness: addOrphan() was called with a set peer for a record that
\* holds another set peer.
PeerSetOnceWitness ==
    /\ last.op = "addOrphan"
    /\ last.nodeId > -1
    /\ \E e \in Find(m_proofs, GetId(last.arg)) :
           e.nodeId > -1 /\ e.nodeId # last.nodeId

\* C17: the timestamp of a stored record changes only while it is unset and
\* only in addOrphan() of its identity; once set it keeps its value through
\* every later call as long as the record is stored.
TimeStampSetOnce ==
    [][\A e \in m_proofs, f \in m_proofs' :
          (GetId(e.proof) = GetId(f.proof) /\ f.timeStamp # e.timeStamp)
              => /\ e.timeStamp < 0
                 /\ last'.op = "addOrphan"
                 /\ GetId(last'.arg) = GetId(e.proof)]_vars

\* C17 witness: addOrphan() was called again, at another time, for a record
\* that was an orphan already; the record has its earlier timestamp.
TimeStampSetOnceWitness ==
    /\ last.op = "addOrphan"
    /\ last.wasOrphan
    /\ \E e \in Find(m_proofs, GetId(last.arg)) :
           e.orphan /\ e.timeStamp >= 0 /\ e.timeStamp # last.time

\* C18 as stated: the timestamp is the time of the record's most recent
\* change from non-orphan to orphan, so an addOrphan() call that finds its
\* record absent or not an orphan leaves it with the time of the call.
StampIsLatestOrphaning ==
    [][(last'.op = "addOrphan" /\ last'.ret = "void" /\ ~last'.wasOrphan)
          => \A f \in Find(m_proofs', GetId(last'.arg)) :
                 f.timeStamp = last'.time]_vars

\* C18 amended: the timestamp is the time of the record's first change to
\* orphan since it was inserted: addOrphan() leaves a timestamp that is set
\* as it is and sets an unset one to the time of the call, and every orphan
\* has a timestamp.
StampIsFirstOrphaning ==
    [][/\ (last'.op = "addOrphan" /\ last'.ret = "void")
            => \A f \in Find(m_proofs', GetId(last'.arg)) :
                   IF \E e \in Find(m_proofs, GetId(last'.arg)) :
                          e.timeStamp >= 0
                   THEN \E e \in Find(m_proofs, GetId(last'.arg)) :
                            f.timeStamp = e.timeStamp
                   ELSE f.timeStamp = last'.time
       /\ \A f \in m_proofs' : f.orphan => f.timeStamp >= 0]_vars

\* C18 witness: a record orphaned at time 0 was claimed and is an orphan
\* again by an addOrphan() call at a later time; its timestamp is 0.
StampIsFirstOrphaningWitness ==
    /\ last.op = "addOrphan"
    /\ ~last.wasOrphan
    /\ \E e \in Find(m_proofs, GetId(last.arg)) :
           e.orphan /\ e.timeStamp >= 0 /\ e.timeStamp < last.time

\* C19: a record whose orphan flag is false goes away only by remove() of
\* its own identity or by clear(); the sweep of addOrphan() never takes it.
NonOrphanNeverEvicted ==
    [][\A e \in m_proofs :
          (~e.orphan /\ Find(m_proofs', GetId(e.proof)) = {})
              => \/ last'.op = "remove" /\ last'.arg = GetId(e.proof)
                 \/ last'.op = "clear"]_vars

\* C19 witness: the sweep of an addOrphan() call reaped an orphan and left
\* a non-orphan of another identity that the timestamp index has before it.
NonOrphanNeverEvictedWitness ==
    /\ last.op = "addOrphan"
    /\ last.reaped # {}
    /\ \E e \in m_proofs :
           /\ ~e.orphan
           /\ GetId(e.proof) # GetId(last.arg)
           /\ e.timeStamp >= 0
           /\ \A r \in last.reaped : e.timeStamp < r.timeStamp

InSection(t) == pc[t] \notin {"idle", "LOCK"}

\* a thread has run the body of its method and is about to leave it
AtReturn(t) ==
    \/ pc[t] \in {"unlock", "throw"}
    \/ pc[t] = "add_unlock" /\ loc[t].op = "add"

\* what the call of the thread makes of the index and the counter it found
\* when run alone, as one step
Alone(t) ==
    CASE loc[t].op = "add" ->
           {[proofs |-> r.proofs, num |-> r.num] :
              r \in {add(pre.proofs, pre.num, loc[t].arg)}}
      [] loc[t].op = "addOrphan" ->
           {[proofs |-> r.proofs, num |-> r.num] :
              r \in addOrphan(pre.proofs, pre.num, m_maxOrphans, loc[t].arg,
                              loc[t].nodeId, loc[t].time)}
      [] loc[t].op = "claimOrphan" ->
           {[proofs |-> r.proofs, num |-> r.num] :
              r \in {claimOrphan(pre.proofs, pre.num, loc[t].arg)}}
      [] loc[t].op = "remove" ->
           {[proofs |-> r.proofs, num |-> r.num] :
              r \in {remove(pre.proofs, pre.num, loc[t].arg)}}

\* C11: with several threads in the public operations at most one is past
\* the LOCK(m_lock) of its method and it holds the lock; when the lock is
\* free the counter agrees with the flags; and what a thread leaves behind
\* when it returns is what its call makes, run alone, of the state it found
\* when it took the lock, so the states seen with the lock free are those
\* of the operations run one at a time.
SerializedByLock ==
    /\ \A t \in Threads, u \in Threads :
          (InSection(t) /\ InSection(u)) => t = u
    /\ \A t \in Threads : InSection(t) => (owner = t /\ m_lock >= 1)
    /\ owner = 0 =>
          /\ m_lock = 0
          /\ pre = NoPre
          /\ numOrphans = Cardinality({e \in m_proofs : e.orphan})
    /\ \A t \in Threads :
          AtReturn(t) =>
              [proofs |-> m_proofs, num |-> m_numOrphans] \in Alone(t)

\* C11 witness: a thread in add() under addOrphan() has lowered the counter
\* and not yet cleared the flag, while another thread waits at its LOCK.
SerializedByLockWitness ==
    \E t \in Threads, u \in Threads :
        /\ pc[t] = "add_modify"
        /\ loc[t].op = "addOrphan"
        /\ pc[u] = "LOCK"
        /\ numOrphans # Cardinality({e \in m_proofs : e.orphan})

\* C12: with the threads scheduled fairly every call that was made returns,
\* by return or by exception, and the thread that made it no longer holds
\* the lock; addOrphan() taking the lock a second time in add() does not
\* stop it.
EveryCallReturns ==
    \A t \in Threads : (pc[t] # "idle") ~> (pc[t] = "idle" /\ owner # t)

\* C12 witness: a thread is in add() under addOrphan() with the lock taken
\* twice, and another thread waits at its LOCK.
EveryCallReturnsWitness ==
    \E t \in Threads, u \in Threads :
        /\ pc[t] = "add_find"
        /\ owner = t
        /\ m_lock = 2
        /\ pc[u] = "LOCK"
====
